---- MODULE Spec2Model ----
(***************************************************************************)
(* Port classification, ordering and renaming (gdsfactory/port.py), both   *)
(* branches of route_single (gdsfactory/routing/route_single.py), and the  *)
(* components bend_euler, cutback_loss, straight_heater_metal_undercut and *)
(* taper (gdsfactory/components), each under a specification of its own.   *)
(*                                                                         *)
(* A port is a record; the ports of a component (or the list handed to a   *)
(* function) are a sequence, and the lists the functions build            *)
(* (direction_ports, results) hold INDICES into that sequence, because     *)
(* Python lists hold references: two ports equal in every field are still  *)
(* two ports.  Port names are Python strings, modelled as sequences of     *)
(* one-character strings so that startswith/endswith and str(i) are        *)
(* computed, not assumed.                                                  *)
(***************************************************************************)
EXTENDS Integers, Sequences, FiniteSets, TLC

VARIABLES
    ports,            \* the ports of the component / the input port list
    op,               \* the last operation performed
    args,             \* the arguments of the last call
    result,           \* the value the last call returned
    err,              \* the exception the last call raised, "none" if none
    direction_ports,  \* the bucket map the last classification built
    before,           \* the ports as they were when the last call started
    applied           \* how many times in a row the last call was made

vars == <<ports, op, args, result, err, direction_ports, before, applied>>

----------------------------------------------------------------------------
(* Bounds *)

MaxFacingPorts == 2
MaxPorts == 3
MaxRenamePorts == 2
MaxCoord == 1
MaxApplied == 2
MaxWaypoints == 2
MaxAngle == 450

----------------------------------------------------------------------------
(* Python values *)

\* orientation: float | None  -- None is <<>>, a defined angle a is <<a>>
None == <<>>
Some(a) == <<a>>
Deg(o) == o[1]

\* str(i) for a non-negative integer i
DigitChar == <<"0", "1", "2", "3", "4", "5", "6", "7", "8", "9">>

RECURSIVE str(_)
str(i) == IF i < 10 THEN <<DigitChar[i + 1]>>
          ELSE str(i \div 10) \o <<DigitChar[(i % 10) + 1]>>

\* s.endswith(suffix)
endswith(s, suffix) ==
    /\ Len(suffix) <= Len(s)
    /\ SubSeq(s, Len(s) - Len(suffix) + 1, Len(s)) = suffix

directions == <<"E", "N", "W", "S">>
Directions == {"E", "N", "W", "S"}

EmptyDirectionPorts == [d \in Directions |-> <<>>]

\* the name of the k-th port handed in
InputName(k) == <<(<<"a", "b", "c", "d", "e", "f">>)[k], "1">>

----------------------------------------------------------------------------
(* The if / elif chain that every classification site repeats *)

\* the double-counting reading of the chain: four independent ifs
AppendBucketOverlapping(dp, angle, i) ==
    [d \in Directions |->
        IF \/ d = "E" /\ (angle <= 45 \/ angle >= 315)
           \/ d = "N" /\ (angle <= 135 /\ angle >= 45)
           \/ d = "W" /\ (angle <= 225 /\ angle >= 135)
           \/ d = "S" /\ (angle > 225 /\ angle < 315)
        THEN Append(dp[d], i) ELSE dp[d]]

\* the chain with the West and South branches exchanged
AppendBucketSouthBeforeWest(dp, angle, i) ==
    IF angle <= 45 \/ angle >= 315 THEN [dp EXCEPT !["E"] = Append(@, i)]
    ELSE IF angle <= 135 /\ angle >= 45 THEN [dp EXCEPT !["N"] = Append(@, i)]
    ELSE IF angle <= 225 /\ angle >= 135 THEN [dp EXCEPT !["S"] = Append(@, i)]
    ELSE [dp EXCEPT !["W"] = Append(@, i)]

\* the chain without its final else: a port past the West range is dropped
AppendBucketWithoutElse(dp, angle, i) ==
    IF angle <= 45 \/ angle >= 315 THEN [dp EXCEPT !["E"] = Append(@, i)]
    ELSE IF angle <= 135 /\ angle >= 45 THEN [dp EXCEPT !["N"] = Append(@, i)]
    ELSE IF angle <= 225 /\ angle >= 135 THEN [dp EXCEPT !["W"] = Append(@, i)]
    ELSE dp

AppendBucket(dp, angle, i) ==
    IF angle <= 45 \/ angle >= 315 THEN [dp EXCEPT !["E"] = Append(@, i)]
    ELSE IF angle <= 135 /\ angle >= 45 THEN [dp EXCEPT !["N"] = Append(@, i)]
    ELSE IF angle <= 225 /\ angle >= 135 THEN [dp EXCEPT !["W"] = Append(@, i)]
    ELSE [dp EXCEPT !["S"] = Append(@, i)]

\* get_ports_facing, the angle of `p`: without the modulo
FacingAngleNoMod(p) == IF p.orientation # None THEN Deg(p.orientation) ELSE 0

\* get_ports_facing: angle = p.orientation % 360 if p.orientation is not None else 0
FacingAngle(p) == IF p.orientation # None THEN Deg(p.orientation) % 360 ELSE 0

\* get_ports_facing: for p in ports: ... (the loop over ps[k..])
RECURSIVE FacingLoop(_, _, _)
FacingLoop(ps, k, dp) ==
    IF k > Len(ps) THEN dp
    ELSE FacingLoop(ps, k + 1, AppendBucket(dp, FacingAngle(ps[k]), k))

\* get_ports_facing that ignores the direction asked for
get_ports_facing_default_direction(ps, direction) ==
    FacingLoop(ps, 1, EmptyDirectionPorts)["W"]

\* get_ports_facing(ports, direction): the value returned
get_ports_facing(ps, direction) == FacingLoop(ps, 1, EmptyDirectionPorts)[direction]

----------------------------------------------------------------------------
(* list.sort(key=...): Python's sort is stable *)

\* the lambdas used as sort keys
key(p, k) == CASE k = "+x" -> p.x
               [] k = "-x" -> 0 - p.x
               [] k = "+y" -> p.y
               [] k = "-y" -> 0 - p.y

\* the position of the first element of l whose key is greater than v
RECURSIVE FirstGreater(_, _, _, _, _)
FirstGreater(ps, l, k, v, n) ==
    IF n > Len(l) THEN n
    ELSE IF key(ps[l[n]], k) > v THEN n
    ELSE FirstGreater(ps, l, k, v, n + 1)

InsertStable(ps, l, k, i) ==
    LET n == FirstGreater(ps, l, k, key(ps[i], k), 1)
    IN  SubSeq(l, 1, n - 1) \o <<i>> \o SubSeq(l, n, Len(l))

\* l.sort(key=k) for a list l of indices into ps
RECURSIVE sort(_, _, _)
sort(ps, l, k) ==
    IF l = <<>> THEN <<>>
    ELSE InsertStable(ps, sort(ps, SubSeq(l, 1, Len(l) - 1), k), k, l[Len(l)])

----------------------------------------------------------------------------
(* select_ports: the filters the calls below use; every other keyword      *)
(* (layer, prefix, orientation, width, layers_excluded, names, sort_ports) *)
(* keeps its default and filters nothing.  suffix = <<>> and               *)
(* port_type = "" stand for None.                                          *)

RECURSIVE Filter(_, _, _, _)
Filter(ps, l, suffix, port_type) ==
    IF l = <<>> THEN <<>>
    ELSE LET p == ps[Head(l)]
             keep == /\ (suffix # <<>> => endswith(p.name, suffix))
                     /\ (port_type # "" => p.port_type = port_type)
         IN  (IF keep THEN <<Head(l)>> ELSE <<>>)
                \o Filter(ps, Tail(l), suffix, port_type)

\* a selection that ignores the port_type filter
select_ports_any_type(ps, suffix, port_type) ==
    Filter(ps, [i \in 1..Len(ps) |-> i], suffix, "")

select_ports(ps, suffix, port_type) ==
    Filter(ps, [i \in 1..Len(ps) |-> i], suffix, port_type)

----------------------------------------------------------------------------
(* The renaming functions: each sorts the bucket lists and assigns names *)

\* the value Python binds to p.name in `f"{prefix}{i+1}" if prefix else i + 1`:
\* with an empty prefix the name is the integer itself, not a string
IntName(n) == <<"<int>">> \o str(n)

\* the name appended to (p.name += ...) instead of replaced
RECURSIVE NameSideAppending(_, _, _, _, _)
NameSideAppending(ps, l, n, prefix, direction) ==
    IF n > Len(l) THEN ps
    ELSE NameSideAppending(
            [ps EXCEPT ![l[n]].name = @ \o prefix \o <<direction>> \o str(n - 1)],
            l, n + 1, prefix, direction)

\* for i, p in enumerate(list_ports): p.name = prefix + direction + str(i)
RECURSIVE NameSide(_, _, _, _, _)
NameSide(ps, l, n, prefix, direction) ==
    IF n > Len(l) THEN ps
    ELSE NameSide([ps EXCEPT ![l[n]].name = prefix \o <<direction>> \o str(n - 1)],
                  l, n + 1, prefix, direction)

\* the two sorts of one side in _rename_ports_facing_side
SortedSide(ps, dp, d) ==
    IF d \in {"E", "W"} THEN sort(ps, sort(ps, dp[d], "+x"), "+y")
    ELSE sort(ps, sort(ps, dp[d], "+y"), "+x")

RECURSIVE FacingSideLoop(_, _, _, _)
FacingSideLoop(ps, dp, prefix, k) ==
    IF k > Len(directions) THEN ps
    ELSE FacingSideLoop(NameSide(ps, SortedSide(ps, dp, directions[k]), 1,
                                 prefix, directions[k]),
                        dp, prefix, k + 1)

_rename_ports_facing_side(ps, dp, prefix) == FacingSideLoop(ps, dp, prefix, 1)

\* for i, p in enumerate(ports): p.name = f"{prefix}{i+1}" if prefix else i + 1
RECURSIVE NameRing(_, _, _, _)
NameRing(ps, l, n, prefix) ==
    IF n > Len(l) THEN ps
    ELSE NameRing([ps EXCEPT ![l[n]].name =
                        IF prefix # <<>> THEN prefix \o str(n) ELSE IntName(n)],
                  l, n + 1, prefix)

\* a clockwise ring whose east side runs south to north
ClockwiseRingEastAscending(ps, dp) ==
    sort(ps, dp["W"], "+y") \o sort(ps, dp["N"], "+x")
        \o sort(ps, dp["E"], "+y") \o sort(ps, dp["S"], "-x")

\* west_ports + north_ports + east_ports + south_ports, each sorted
ClockwiseRing(ps, dp) ==
    sort(ps, dp["W"], "+y") \o sort(ps, dp["N"], "+x")
        \o sort(ps, dp["E"], "-y") \o sort(ps, dp["S"], "-x")

\* a counter-clockwise ring whose north side runs west to east
CounterClockwiseRingNorthAscending(ps, dp) ==
    sort(ps, dp["E"], "+y") \o sort(ps, dp["N"], "+x")
        \o sort(ps, dp["W"], "-y") \o sort(ps, dp["S"], "+x")

\* east_ports + north_ports + west_ports + south_ports, each sorted
CounterClockwiseRing(ps, dp) ==
    sort(ps, dp["E"], "+y") \o sort(ps, dp["N"], "-x")
        \o sort(ps, dp["W"], "-y") \o sort(ps, dp["S"], "+x")

_rename_ports_clockwise(ps, dp, prefix) ==
    NameRing(ps, ClockwiseRing(ps, dp), 1, prefix)

_rename_ports_counter_clockwise(ps, dp, prefix) ==
    NameRing(ps, CounterClockwiseRing(ps, dp), 1, prefix)

\* function(direction_ports, prefix=prefix)
CallFunction(function, ps, dp, prefix) ==
    CASE function = "_rename_ports_facing_side" ->
            _rename_ports_facing_side(ps, dp, prefix)
      [] function = "_rename_ports_clockwise" ->
            _rename_ports_clockwise(ps, dp, prefix)
      [] function = "_rename_ports_counter_clockwise" ->
            _rename_ports_counter_clockwise(ps, dp, prefix)

----------------------------------------------------------------------------
(* rename_ports_by_orientation *)

\* the loop over ports_on_layer (the list l of selected indices; with the
\* default layers_excluded no selected port is left out); p.parent = component
\* sets the port's back-reference and nothing else
RECURSIVE RenameLoop(_, _, _)
RenameLoop(ps, l, dp) ==
    IF l = <<>> THEN dp
    ELSE LET p == ps[Head(l)]
         IN  RenameLoop(ps, Tail(l),
                IF p.orientation # None
                THEN AppendBucket(dp, Deg(p.orientation) % 360, Head(l))
                ELSE [dp EXCEPT !["S"] = Append(@, Head(l))])

\* the bucket map built from the selected ports
RenameBuckets(ps, suffix, port_type) ==
    RenameLoop(ps, select_ports(ps, suffix, port_type), EmptyDirectionPorts)

\* the ports of the component after the call
rename_ports_by_orientation(ps, function, prefix, suffix, port_type) ==
    CallFunction(function, ps, RenameBuckets(ps, suffix, port_type), prefix)

\* auto_rename_ports: with port_type None (""), the optical, the electrical
\* and the placement ports in turn, under the prefixes o, e and p; with a
\* port_type, the ports of that type under `prefix`
auto_rename_ports(ps, function, suffix, prefix, port_type) ==
    IF port_type = ""
    THEN LET o == rename_ports_by_orientation(ps, function, <<"o">>, suffix, "optical")
             e == rename_ports_by_orientation(o, function, <<"e">>, suffix, "electrical")
         IN  rename_ports_by_orientation(e, function, <<"p">>, suffix, "placement")
    ELSE rename_ports_by_orientation(ps, function, prefix, suffix, port_type)

----------------------------------------------------------------------------
(* map_ports_to_orientation_cw: works on copies, returns {new name: old name} *)

RECURSIVE MapCwLoop(_, _, _)
MapCwLoop(ps, k, dp) ==
    IF k > Len(ps) THEN dp
    ELSE MapCwLoop(ps, k + 1, AppendBucket(dp, Deg(ps[k].orientation) % 360, k))

\* p.orientation % 360 raises TypeError when p.orientation is None
MapCwRaises(ps) == \E k \in 1..Len(ps) : ps[k].orientation = None

\* {p.name: p.name_original for p in ports_on_layer}: a later key overwrites
NameMap(copies, ps) ==
    [n \in {copies[k].name : k \in 1..Len(ps)} |->
        ps[CHOOSE k \in 1..Len(ps) :
              /\ copies[k].name = n
              /\ \A j \in 1..Len(ps) : copies[j].name = n => j <= k].name]

map_ports_to_orientation_cw(ps) ==
    NameMap(_rename_ports_facing_side(ps, MapCwLoop(ps, 1, EmptyDirectionPorts), <<>>), ps)

----------------------------------------------------------------------------
(* sort_ports_clockwise / sort_ports_counter_clockwise *)

\* p.angle of a kfactory port: the orientation in quarter turns (0..3)
PortAngle(p) == (Deg(p.orientation) % 360) \div 90

\* for p in port_list: angle = p.angle * 90 ...
RECURSIVE SortLoop(_, _, _)
SortLoop(ps, k, dp) ==
    IF k > Len(ps) THEN dp
    ELSE SortLoop(ps, k + 1, AppendBucket(dp, PortAngle(ps[k]) * 90, k))

sort_ports_clockwise(ps) ==
    ClockwiseRing(ps, SortLoop(ps, 1, EmptyDirectionPorts))

sort_ports_counter_clockwise(ps) ==
    CounterClockwiseRing(ps, SortLoop(ps, 1, EmptyDirectionPorts))

----------------------------------------------------------------------------
(* State machine *)

NoArgs == [call |-> "none"]

Init ==
    /\ ports = <<>>
    /\ op = "init"
    /\ args = NoArgs
    /\ result = <<>>
    /\ err = "none"
    /\ direction_ports = EmptyDirectionPorts
    /\ before = <<>>
    /\ applied = 0

\* the port list is still being put together: no function has been called
Building == op \in {"init", "input"}

\* a call is made on the finished list; a renaming may then be repeated with
\* the same arguments, MaxApplied times in all
CanCall(o, a) ==
    \/ Building
    \/ op = o /\ args = a /\ applied < MaxApplied

Called(o, a) ==
    /\ op' = o
    /\ args' = a
    /\ before' = ports
    /\ applied' = IF Building THEN 1 ELSE applied + 1

\* one more port in the list handed to the functions
Input(p) ==
    /\ Building
    /\ ports' = Append(ports, p)
    /\ op' = "input"
    /\ UNCHANGED <<args, result, err, direction_ports, before, applied>>

\* orientations for the classification: None, negative angles, angles of 360
\* and more, the four boundaries and the angles of the worked example
FacingOrientations ==
    {None} \cup {Some(a) : a \in {b \in (-90)..MaxAngle : b % 45 \in {0, 10, 35}}}

InputFacingPort ==
    /\ Len(ports) < MaxFacingPorts
    /\ \E o \in FacingOrientations :
          Input([name |-> InputName(Len(ports) + 1), x |-> 0, y |-> 0,
                 orientation |-> o, width |-> 1, layer |-> <<1, 0>>,
                 port_type |-> "optical"])

valid_directions == {"E", "N", "W", "S"}

GetPortsFacing ==
    \E direction \in valid_directions \cup {"X"} :
        LET a == [direction |-> direction]
        IN  /\ Building
            /\ Called("get_ports_facing", a)
            /\ IF direction \notin valid_directions
               THEN /\ err' = "PortOrientationError"
                    /\ result' = <<>>
                    /\ direction_ports' = EmptyDirectionPorts
               ELSE /\ err' = "none"
                    /\ result' = get_ports_facing(ports, direction)
                    /\ direction_ports' = FacingLoop(ports, 1, EmptyDirectionPorts)
            /\ UNCHANGED ports

RenamePortsByOrientation(function, suffix) ==
    LET a == [function |-> function, prefix |-> <<"o">>, suffix |-> suffix]
    IN  /\ CanCall("rename_ports_by_orientation", a)
        /\ Called("rename_ports_by_orientation", a)
        /\ direction_ports' = RenameBuckets(ports, suffix, "")
        /\ ports' = rename_ports_by_orientation(ports, function, <<"o">>, suffix, "")
        /\ err' = "none"
        /\ result' = <<>>

MapPortsToOrientationCw ==
    /\ Building
    /\ Called("map_ports_to_orientation_cw", NoArgs)
    /\ IF MapCwRaises(ports)
       THEN /\ err' = "TypeError"
            /\ result' = <<>>
            /\ direction_ports' = EmptyDirectionPorts
       ELSE /\ err' = "none"
            /\ result' = map_ports_to_orientation_cw(ports)
            /\ direction_ports' = MapCwLoop(ports, 1, EmptyDirectionPorts)
    /\ UNCHANGED ports

RenameFacing == RenamePortsByOrientation("_rename_ports_facing_side", <<>>)

NextFacing ==
    \/ InputFacingPort
    \/ GetPortsFacing
    \/ RenameFacing
    \/ MapPortsToOrientationCw

SpecFacing == Init /\ [][NextFacing]_vars

----------------------------------------------------------------------------
(* Ordering: sort_ports_clockwise, sort_ports_counter_clockwise and the    *)
(* ring renamings, on ports with the four cardinal orientations.  The      *)
(* ports sit on the sides of a box, as in the docstrings' drawings: the    *)
(* ring orders read y only on the east and west sides and x only on the    *)
(* north and south sides.                                                  *)

\* the ports of orientation a on the box (0,0)..(MaxCoord,MaxCoord)
BoxSide(a) ==
    CASE a = 0   -> {<<MaxCoord, c>> : c \in 0..MaxCoord}
      [] a = 90  -> {<<c, MaxCoord>> : c \in 0..MaxCoord}
      [] a = 180 -> {<<0, c>> : c \in 0..MaxCoord}
      [] a = 270 -> {<<c, 0>> : c \in 0..MaxCoord}

InputOrderPort ==
    /\ Len(ports) < MaxPorts
    /\ \E a \in {0, 90, 180, 270} : \E xy \in BoxSide(a) :
          Input([name |-> InputName(Len(ports) + 1), x |-> xy[1], y |-> xy[2],
                 orientation |-> Some(a), width |-> 1, layer |-> <<1, 0>>,
                 port_type |-> "optical"])

SortPortsClockwise ==
    /\ Building
    /\ Called("sort_ports_clockwise", NoArgs)
    /\ result' = sort_ports_clockwise(ports)
    /\ direction_ports' = SortLoop(ports, 1, EmptyDirectionPorts)
    /\ err' = "none"
    /\ UNCHANGED ports

SortPortsCounterClockwise ==
    /\ Building
    /\ Called("sort_ports_counter_clockwise", NoArgs)
    /\ result' = sort_ports_counter_clockwise(ports)
    /\ direction_ports' = SortLoop(ports, 1, EmptyDirectionPorts)
    /\ err' = "none"
    /\ UNCHANGED ports

RenameClockwise == RenamePortsByOrientation("_rename_ports_clockwise", <<>>)

RenameCounterClockwise ==
    RenamePortsByOrientation("_rename_ports_counter_clockwise", <<>>)

Next ==
    \/ InputOrderPort
    \/ SortPortsClockwise
    \/ SortPortsCounterClockwise
    \/ RenameClockwise
    \/ RenameCounterClockwise

Spec == Init /\ [][Next]_vars

----------------------------------------------------------------------------
(* Renaming: rename_ports_by_orientation and auto_rename_ports with each   *)
(* renaming function, with and without a select_ports setting (suffix),    *)
(* on ports placed along the line y = 0                                    *)

PortTypes == {"optical", "electrical", "vertical_te"}

Functions == {"_rename_ports_facing_side", "_rename_ports_clockwise",
              "_rename_ports_counter_clockwise"}

\* suffix=None and suffix="1"
Suffixes == {<<>>, <<"1">>}

InputRenamePort ==
    /\ Len(ports) < MaxRenamePorts
    /\ \E x \in 0..MaxCoord, o \in {Some(0), Some(90), None}, t \in PortTypes :
          Input([name |-> InputName(Len(ports) + 1), x |-> x, y |-> 0,
                 orientation |-> o, width |-> 1, layer |-> <<1, 0>>,
                 port_type |-> t])

RenameSelected ==
    \E function \in Functions, suffix \in Suffixes :
        RenamePortsByOrientation(function, suffix)

AutoRenamePorts ==
    \E function \in Functions, suffix \in Suffixes, port_type \in {"", "optical"} :
        LET a == [function |-> function, suffix |-> suffix,
                  prefix |-> <<"o">>, port_type |-> port_type]
        IN  /\ CanCall("auto_rename_ports", a)
            /\ Called("auto_rename_ports", a)
            /\ ports' = auto_rename_ports(ports, function, suffix, <<"o">>, port_type)
            /\ direction_ports' = RenameBuckets(ports, suffix, "optical")
            /\ err' = "none"
            /\ result' = <<>>

NextRename ==
    \/ InputRenamePort
    \/ RenameSelected
    \/ AutoRenamePorts

SpecRename == Init /\ [][NextRename]_vars

----------------------------------------------------------------------------
(* route_single, the branch taken when waypoints is not None               *)
(*                                                                         *)
(* Port centers and kdb.Point coordinates are integers in database units;  *)
(* waypoint tuples are in um (whole um here) and are divided by dbu.       *)

\* 1 / component.kcl.dbu: database units per um
DbuPerUm == 1000

\* kf.kdb.Point(*p.center)
CenterPoint(p) == <<p.x, p.y>>

\* kf.kdb.Point(p[0] / dbu, p[1] / dbu)
ToPoint(xy) == <<xy[1] * DbuPerUm, xy[2] * DbuPerUm>>

\* the list built without the closing  w += [kf.kdb.Point(*p2.center)]
WaypointPtsWithoutEnd(p1, p2, waypoints, form) ==
    IF form = "tuples"
    THEN <<CenterPoint(p1)>> \o [k \in 1..Len(waypoints) |-> ToPoint(waypoints[k])]
    ELSE waypoints

\* pts handed to place90: form = "tuples" when waypoints[0] is not a
\* kdb.Point, form = "points" when it is
WaypointPts(p1, p2, waypoints, form) ==
    IF form = "tuples"
    THEN <<CenterPoint(p1)>> \o [k \in 1..Len(waypoints) |-> ToPoint(waypoints[k])]
            \o <<CenterPoint(p2)>>
    ELSE waypoints

\* port1 and port2 of the call
InputRoutePort ==
    /\ Len(ports) < 2
    /\ \E x \in 0..MaxCoord, y \in 0..MaxCoord :
          Input([name |-> InputName(Len(ports) + 1), x |-> x, y |-> y,
                 orientation |-> Some(0), width |-> 1, layer |-> <<1, 0>>,
                 port_type |-> "optical"])

\* the waypoint lists tried: up to MaxWaypoints coordinate pairs
WaypointLists ==
    UNION {[1..n -> (0..MaxCoord) \X (0..MaxCoord)] : n \in 0..MaxWaypoints}

RouteSingle ==
    /\ Len(ports) = 2
    /\ \E form \in {"tuples", "points"}, waypoints \in WaypointLists :
          LET a == [waypoints |-> waypoints, form |-> form]
          IN  /\ Building
              /\ Called("route_single", a)
              /\ IF waypoints = <<>>
                 THEN /\ err' = "IndexError"
                      /\ result' = <<>>
                 ELSE /\ err' = "none"
                      /\ result' = WaypointPts(ports[1], ports[2], waypoints, form)
    /\ UNCHANGED <<ports, direction_ports>>

NextRoute ==
    \/ InputRoutePort
    \/ RouteSingle

SpecRoute == Init /\ [][NextRoute]_vars

----------------------------------------------------------------------------
(* Claims about the classification (checked under SpecFacing) *)

\* C1: at get_ports_facing, rename_ports_by_orientation and
\* map_ports_to_orientation_cw a port with a defined orientation lands, with
\* angle = orientation modulo 360, in East if angle <= 45 or angle >= 315,
\* else in North if 45 <= angle <= 135, else in West if 135 <= angle <= 225,
\* else in South (the rule read in the order it is written); orientations 10,
\* 80, 170 and 260 land in E, N, W and S.
ClassifierRule ==
    LET InBucket(i, d) == \E n \in 1..Len(direction_ports[d]) : direction_ports[d][n] = i
        expected(angle) ==
            IF angle <= 45 \/ angle >= 315 THEN "E"
            ELSE IF 45 <= angle /\ angle <= 135 THEN "N"
            ELSE IF 135 <= angle /\ angle <= 225 THEN "W"
            ELSE "S"
    IN  (/\ op \in {"get_ports_facing", "rename_ports_by_orientation",
                    "map_ports_to_orientation_cw"}
         /\ err = "none")
        => \A i \in 1..Len(before) :
              before[i].orientation # None =>
                 /\ InBucket(i, expected(Deg(before[i].orientation) % 360))
                 /\ before[i].orientation = Some(10) => InBucket(i, "E")
                 /\ before[i].orientation = Some(80) => InBucket(i, "N")
                 /\ before[i].orientation = Some(170) => InBucket(i, "W")
                 /\ before[i].orientation = Some(260) => InBucket(i, "S")

ClassifierRuleWitness ==
    /\ op = "rename_ports_by_orientation"
    /\ Len(before) = 2
    /\ before[1].orientation = Some(80)
    /\ before[2].orientation = Some(260)
    /\ direction_ports["N"] = <<1>>
    /\ direction_ports["S"] = <<2>>

\* C2 as stated: a port whose angle is exactly 45, 135, 225 or 315 is put in
\* both adjoining buckets.
BoundaryInBothBuckets ==
    LET InBucket(i, d) == \E n \in 1..Len(direction_ports[d]) : direction_ports[d][n] = i
        angle(i) == Deg(before[i].orientation) % 360
    IN  (/\ op \in {"get_ports_facing", "rename_ports_by_orientation",
                    "map_ports_to_orientation_cw"}
         /\ err = "none")
        => \A i \in 1..Len(before) :
              before[i].orientation # None =>
                 /\ angle(i) = 45 => InBucket(i, "E") /\ InBucket(i, "N")
                 /\ angle(i) = 135 => InBucket(i, "N") /\ InBucket(i, "W")
                 /\ angle(i) = 225 => InBucket(i, "W") /\ InBucket(i, "S")
                 /\ angle(i) = 315 => InBucket(i, "S") /\ InBucket(i, "E")

\* C2 amended: a port whose angle is exactly 45, 135, 225 or 315 is put in
\* exactly one bucket, once: the first of E, N, W, S whose range holds it
\* (45 and 315 in E, 135 in N, 225 in W).
BoundaryInFirstBucketOnly ==
    LET Count(i, d) == Cardinality({n \in 1..Len(direction_ports[d]) :
                                        direction_ports[d][n] = i})
        angle(i) == Deg(before[i].orientation) % 360
        first(a) == CASE a = 45 -> "E" [] a = 135 -> "N" [] a = 225 -> "W" [] a = 315 -> "E"
    IN  (/\ op \in {"get_ports_facing", "rename_ports_by_orientation",
                    "map_ports_to_orientation_cw"}
         /\ err = "none")
        => \A i \in 1..Len(before) :
              (before[i].orientation # None /\ angle(i) \in {45, 135, 225, 315}) =>
                 \A d \in Directions :
                    Count(i, d) = IF d = first(angle(i)) THEN 1 ELSE 0

BoundaryWitness ==
    /\ op = "get_ports_facing"
    /\ err = "none"
    /\ Len(before) = 2
    /\ before[1].orientation = Some(45)
    /\ before[2].orientation = Some(225)
    /\ direction_ports = [E |-> <<1>>, N |-> <<>>, W |-> <<2>>, S |-> <<>>]

\* C3: two ports whose orientations differ by 360 degrees (negative angles
\* and angles of 360 and more included) are put in the same bucket.
ClassifierPeriodic ==
    LET InBucket(i, d) == \E n \in 1..Len(direction_ports[d]) : direction_ports[d][n] = i
    IN  (/\ op \in {"get_ports_facing", "rename_ports_by_orientation",
                    "map_ports_to_orientation_cw"}
         /\ err = "none")
        => \A i, j \in 1..Len(before) :
              (/\ before[i].orientation # None
               /\ before[j].orientation # None
               /\ Deg(before[j].orientation) = Deg(before[i].orientation) + 360)
              => \A d \in Directions : InBucket(i, d) <=> InBucket(j, d)

ClassifierPeriodicWitness ==
    /\ op = "get_ports_facing"
    /\ err = "none"
    /\ Len(before) = 2
    /\ before[1].orientation = Some(-80)
    /\ before[2].orientation = Some(280)
    /\ direction_ports["S"] = <<1, 2>>

\* C4: in every classification operation a port whose orientation is None is
\* put in the South bucket, and the None orientation raises no error.
UndefinedOrientationIsSouth ==
    LET InBucket(i, d) == \E n \in 1..Len(direction_ports[d]) : direction_ports[d][n] = i
    IN  (/\ op \in {"get_ports_facing", "rename_ports_by_orientation",
                    "map_ports_to_orientation_cw"}
         /\ op = "get_ports_facing" => args.direction \in valid_directions)
        => \A i \in 1..Len(before) :
              before[i].orientation = None => err = "none" /\ InBucket(i, "S")

\* C9 as stated: get_ports_facing raises PortOrientationError when the
\* direction is not one of E, N, W, S and also when no port faces the
\* direction; otherwise it returns the ports of that direction in input order.
FacingRaisesWhenNoneFound ==
    LET expected(angle) ==
            IF angle <= 45 \/ angle >= 315 THEN "E"
            ELSE IF 45 <= angle /\ angle <= 135 THEN "N"
            ELSE IF 135 <= angle /\ angle <= 225 THEN "W"
            ELSE "S"
        faces(i, d) == /\ before[i].orientation # None
                       /\ expected(Deg(before[i].orientation) % 360) = d
        InResult(i) == \E n \in 1..Len(result) : result[n] = i
    IN  op = "get_ports_facing" =>
           IF \/ args.direction \notin {"E", "N", "W", "S"}
              \/ \A i \in 1..Len(before) :
                    before[i].orientation # None => ~faces(i, args.direction)
           THEN err = "PortOrientationError"
           ELSE /\ err = "none"
                /\ \A m, n \in 1..Len(result) : m < n => result[m] < result[n]
                /\ \A i \in 1..Len(before) :
                      before[i].orientation # None =>
                         (InResult(i) <=> faces(i, args.direction))

\* C9 amended: get_ports_facing raises PortOrientationError exactly when the
\* direction is not one of E, N, W, S; otherwise it returns, in input order
\* and each once, the ports of that direction, which is the empty list when
\* no port faces the direction (of the ports with a defined orientation,
\* those and only those that the rule of C1 puts in the direction).
FacingRaisesOnlyOnBadDirection ==
    LET expected(angle) ==
            IF angle <= 45 \/ angle >= 315 THEN "E"
            ELSE IF 45 <= angle /\ angle <= 135 THEN "N"
            ELSE IF 135 <= angle /\ angle <= 225 THEN "W"
            ELSE "S"
        faces(i, d) == /\ before[i].orientation # None
                       /\ expected(Deg(before[i].orientation) % 360) = d
        InResult(i) == \E n \in 1..Len(result) : result[n] = i
    IN  op = "get_ports_facing" =>
           IF args.direction \notin {"E", "N", "W", "S"}
           THEN err = "PortOrientationError"
           ELSE /\ err = "none"
                /\ \A m, n \in 1..Len(result) : m < n => result[m] < result[n]
                /\ \A n \in 1..Len(result) : result[n] \in 1..Len(before)
                /\ \A i \in 1..Len(before) :
                      before[i].orientation # None =>
                         (InResult(i) <=> faces(i, args.direction))

FacingNoneFoundWitness ==
    /\ op = "get_ports_facing"
    /\ args.direction = "N"
    /\ Len(before) = 2
    /\ before[1].orientation = Some(0)
    /\ before[2].orientation = Some(260)
    /\ err = "none"
    /\ result = <<>>

----------------------------------------------------------------------------
(* Claims about ordering (checked under Spec) *)

\* C5: sort_ports_clockwise returns every port once, all West ports in
\* ascending y, then all North ports in ascending x, then all East ports in
\* descending y, then all South ports in descending x; and
\* _rename_ports_clockwise names the ports prefix+1 .. prefix+N in that order.
ClockwiseOrder ==
    LET side(p) == Deg(p.orientation) % 360
        rank(p) == CASE side(p) = 180 -> 1 [] side(p) = 90 -> 2
                     [] side(p) = 0 -> 3 [] side(p) = 270 -> 4
        inOrder(p, q) ==
            \/ rank(p) < rank(q)
            \/ /\ rank(p) = rank(q)
               /\ CASE rank(p) = 1 -> p.y <= q.y
                    [] rank(p) = 2 -> p.x <= q.x
                    [] rank(p) = 3 -> p.y >= q.y
                    [] rank(p) = 4 -> p.x >= q.x
        N == Len(before)
    IN  /\ op = "sort_ports_clockwise" =>
            /\ Len(result) = N
            /\ \A i \in 1..N : \E n \in 1..N : result[n] = i
            /\ \A m, n \in 1..N : m < n => inOrder(before[result[m]], before[result[n]])
        /\ (op = "rename_ports_by_orientation"
                /\ args.function = "_rename_ports_clockwise") =>
            /\ \A n \in 1..N : \E i \in 1..N : ports[i].name = args.prefix \o str(n)
            /\ \A i \in 1..N : \E n \in 1..N : ports[i].name = args.prefix \o str(n)
            /\ \A i, j \in 1..N : \A m, n \in 1..N :
                  (/\ m < n
                   /\ ports[i].name = args.prefix \o str(m)
                   /\ ports[j].name = args.prefix \o str(n))
                  => inOrder(before[i], before[j])

ClockwiseOrderWitness ==
    /\ op = "rename_ports_by_orientation"
    /\ args.function = "_rename_ports_clockwise"
    /\ Len(before) = 3
    /\ before[1].orientation = Some(0) /\ before[1].y = 0
    /\ before[2].orientation = Some(0) /\ before[2].y = 1
    /\ before[3].orientation = Some(180)
    /\ ports[3].name = <<"o", "1">>
    /\ ports[2].name = <<"o", "2">>
    /\ ports[1].name = <<"o", "3">>

\* C6: sort_ports_counter_clockwise returns every port once, East ports in
\* ascending y, then North ports in descending x, then West ports in
\* descending y, then South ports in ascending x; and
\* _rename_ports_counter_clockwise numbers the ports from 1 in that order.
CounterClockwiseOrder ==
    LET side(p) == Deg(p.orientation) % 360
        rank(p) == CASE side(p) = 0 -> 1 [] side(p) = 90 -> 2
                     [] side(p) = 180 -> 3 [] side(p) = 270 -> 4
        inOrder(p, q) ==
            \/ rank(p) < rank(q)
            \/ /\ rank(p) = rank(q)
               /\ CASE rank(p) = 1 -> p.y <= q.y
                    [] rank(p) = 2 -> p.x >= q.x
                    [] rank(p) = 3 -> p.y >= q.y
                    [] rank(p) = 4 -> p.x <= q.x
        N == Len(before)
    IN  /\ op = "sort_ports_counter_clockwise" =>
            /\ Len(result) = N
            /\ \A i \in 1..N : \E n \in 1..N : result[n] = i
            /\ \A m, n \in 1..N : m < n => inOrder(before[result[m]], before[result[n]])
        /\ (op = "rename_ports_by_orientation"
                /\ args.function = "_rename_ports_counter_clockwise") =>
            /\ \A n \in 1..N : \E i \in 1..N : ports[i].name = args.prefix \o str(n)
            /\ \A i \in 1..N : \E n \in 1..N : ports[i].name = args.prefix \o str(n)
            /\ \A i, j \in 1..N : \A m, n \in 1..N :
                  (/\ m < n
                   /\ ports[i].name = args.prefix \o str(m)
                   /\ ports[j].name = args.prefix \o str(n))
                  => inOrder(before[i], before[j])

CounterClockwiseOrderWitness ==
    /\ op = "sort_ports_counter_clockwise"
    /\ Len(before) = 3
    /\ before[1].orientation = Some(90) /\ before[1].x = 0
    /\ before[2].orientation = Some(90) /\ before[2].x = 1
    /\ before[3].orientation = Some(0)
    /\ result = <<3, 2, 1>>

----------------------------------------------------------------------------
(* Claims about renaming (checked under SpecRename) *)

RenamingChangesNamesOnly ==
    LET selected(p) ==
            /\ (args.suffix # <<>> => endswith(p.name, args.suffix))
            /\ (op = "auto_rename_ports" =>
                    IF args.port_type = ""
                    THEN p.port_type \in {"optical", "electrical", "placement"}
                    ELSE p.port_type = args.port_type)
    IN  op \in {"rename_ports_by_orientation", "auto_rename_ports"} =>
            /\ Len(ports) = Len(before)
            /\ \A i \in 1..Len(before) :
                  /\ ports[i].x = before[i].x
                  /\ ports[i].y = before[i].y
                  /\ ports[i].orientation = before[i].orientation
                  /\ ports[i].width = before[i].width
                  /\ ports[i].layer = before[i].layer
                  /\ ports[i].port_type = before[i].port_type
                  /\ ~selected(before[i]) => ports[i].name = before[i].name

RenamingChangesNamesOnlyWitness ==
    /\ op = "auto_rename_ports"
    /\ applied = 1
    /\ args.suffix = <<>>
    /\ args.port_type = ""
    /\ Len(before) = 2
    /\ before[1].port_type = "vertical_te"
    /\ before[2].port_type = "optical"
    /\ ports[1].name = <<"a", "1">>
    /\ ports[2].name = <<"o", "1">>
    /\ before[2].name = <<"b", "1">>

----------------------------------------------------------------------------
(* Claims about route_single (checked under SpecRoute) *)

\* C10 as stated: whatever the form of the (non-empty) waypoints, coordinate
\* tuples or grid points, the backbone handed to place90 is
\* [port1 center] + waypoints in grid units + [port2 center].
BackboneWrapsWaypoints ==
    LET w == args.waypoints
        grid(k) == IF args.form = "tuples"
                   THEN <<w[k][1] * 1000, w[k][2] * 1000>> ELSE w[k]
    IN  (op = "route_single" /\ args.waypoints # <<>>) =>
            /\ err = "none"
            /\ Len(result) = Len(w) + 2
            /\ result[1] = <<before[1].x, before[1].y>>
            /\ result[Len(result)] = <<before[2].x, before[2].y>>
            /\ \A k \in 1..Len(w) : result[k + 1] = grid(k)

\* C10 amended: for a non-empty list of coordinate tuples the backbone handed
\* to place90 is [port1 center] + waypoints in grid units + [port2 center],
\* nothing dropped or reordered; a list of grid points is handed over as it
\* is, without the port centers.
BackboneWrapsCoordinateTuples ==
    LET w == args.waypoints
    IN  (op = "route_single" /\ args.waypoints # <<>>) =>
            /\ err = "none"
            /\ args.form = "tuples" =>
                  /\ Len(result) = Len(w) + 2
                  /\ result[1] = <<before[1].x, before[1].y>>
                  /\ result[Len(result)] = <<before[2].x, before[2].y>>
                  /\ \A k \in 1..Len(w) :
                        result[k + 1] = <<w[k][1] * 1000, w[k][2] * 1000>>
            /\ args.form = "points" => result = w

BackboneWitness ==
    /\ op = "route_single"
    /\ args.form = "tuples"
    /\ args.waypoints = <<<<1, 0>>, <<1, 1>>>>
    /\ before[1].x = 0 /\ before[1].y = 0
    /\ before[2].x = 0 /\ before[2].y = 1
    /\ result = <<<<0, 0>>, <<1000, 0>>, <<1000, 1000>>, <<0, 1>>>>

----------------------------------------------------------------------------
(* bend_euler: the radius actually used, the wire_corner fallback and the  *)
(* minimum-radius check (components/bend_euler.py)                         *)

MaxRadius == 3

\* Python's `a or b` on float | None: None and 0 are falsy
Or(a, b) == IF a = None \/ a = Some(0) THEN b ELSE a

\* cross-sections: radius and radius_min are float | None
CrossSections ==
    [radius : {None} \cup {Some(r) : r \in 1..MaxRadius},
     radius_min : {None} \cup {Some(r) : r \in 1..MaxRadius}]

\* CrossSection.validate_radius(radius): TRUE when it raises, which is when
\* the cross-section declares a minimum radius and radius is below it
validate_radius(x, radius) ==
    x.radius_min # None /\ radius < x.radius_min[1]

\* p.info["Rmin"] of euler(radius, use_eff): the nominal radius without
\* use_eff; with use_eff the curve is scaled to the effective radius and its
\* smallest radius of curvature is at most the nominal one
euler_Rmin(radius, use_eff) == IF use_eff THEN 1..radius ELSE {radius}

NoComponent == [kind |-> "none"]

bend_euler_ignoring_flag(radius, x, Rmin, allow_min_radius_violation) ==
    LET r == Or(radius, x.radius)
    IN  IF r = None
        THEN [err |-> "none", component |-> [kind |-> "wire_corner"]]
        ELSE IF validate_radius(x, r[1])
        THEN [err |-> "ValueError", component |-> NoComponent]
        ELSE [err |-> "none",
              component |-> [kind |-> "bend_euler", radius |-> r[1],
                             radius_min |-> Rmin]]

bend_euler_validating_Rmin(radius, x, Rmin, allow_min_radius_violation) ==
    LET r == Or(radius, x.radius)
    IN  IF r = None
        THEN [err |-> "none", component |-> [kind |-> "wire_corner"]]
        ELSE IF ~allow_min_radius_violation /\ validate_radius(x, Rmin)
        THEN [err |-> "ValueError", component |-> NoComponent]
        ELSE [err |-> "none",
              component |-> [kind |-> "bend_euler", radius |-> r[1],
                             radius_min |-> Rmin]]

bend_euler_without_default(radius, x, Rmin, allow_min_radius_violation) ==
    LET r == radius
    IN  IF r = None \/ r = Some(0)
        THEN [err |-> "none", component |-> [kind |-> "wire_corner"]]
        ELSE IF ~allow_min_radius_violation /\ validate_radius(x, r[1])
        THEN [err |-> "ValueError", component |-> NoComponent]
        ELSE [err |-> "none",
              component |-> [kind |-> "bend_euler", radius |-> r[1],
                             radius_min |-> Rmin]]

\* radius = radius or x.radius; wire_corner when that is None; the component
\* is built and its info filled in, then validate_radius(radius) is called
\* unless allow_min_radius_violation, and an exception leaves no component
bend_euler(radius, x, Rmin, allow_min_radius_violation) ==
    LET r == Or(radius, x.radius)
    IN  IF r = None
        THEN [err |-> "none", component |-> [kind |-> "wire_corner"]]
        ELSE IF ~allow_min_radius_violation /\ validate_radius(x, r[1])
        THEN [err |-> "ValueError", component |-> NoComponent]
        ELSE [err |-> "none",
              component |-> [kind |-> "bend_euler", radius |-> r[1],
                             radius_min |-> Rmin]]

\* one call of bend_euler; Rmin is the smallest radius of the curve euler()
\* returned for the radius used (0 when no curve is computed)
BendEuler ==
    /\ Building
    /\ \E radius \in {None} \cup {Some(r) : r \in 0..MaxRadius},
          x \in CrossSections, use_eff \in BOOLEAN, allow \in BOOLEAN :
          LET r == Or(radius, x.radius)
          IN  \E Rmin \in (IF r = None THEN {0}
                           ELSE euler_Rmin(r[1], use_eff)) :
                 /\ Called("bend_euler",
                           [radius |-> radius, cross_section |-> x,
                            with_arc_floorplan |-> use_eff, Rmin |-> Rmin,
                            allow_min_radius_violation |-> allow])
                 /\ result' = bend_euler(radius, x, Rmin, allow).component
                 /\ err' = bend_euler(radius, x, Rmin, allow).err
    /\ UNCHANGED <<ports, direction_ports>>

NextBend == BendEuler

SpecBend == Init /\ [][NextBend]_vars

\* C14: a call with a positive radius below the cross-section's minimum
\* radius raises when allow_min_radius_violation is False and returns no
\* bend; with the flag True it returns a bend whose recorded radius_min is
\* below the declared minimum.
RadiusBelowMinimum ==
    (/\ op = "bend_euler"
     /\ args.radius # None /\ args.radius # Some(0)
     /\ args.cross_section.radius_min # None
     /\ args.radius[1] < args.cross_section.radius_min[1]) =>
        /\ ~args.allow_min_radius_violation =>
              err = "ValueError" /\ result = NoComponent
        /\ args.allow_min_radius_violation =>
              /\ err = "none"
              /\ result.kind = "bend_euler"
              /\ result.radius_min < args.cross_section.radius_min[1]

RadiusBelowMinimumWitness ==
    /\ op = "bend_euler"
    /\ args.radius = Some(1)
    /\ args.cross_section.radius_min = Some(2)
    /\ args.allow_min_radius_violation
    /\ err = "none"
    /\ result.kind = "bend_euler" /\ result.radius_min = 1

\* C15 as stated: the call fails whenever the achieved minimum radius (Rmin
\* of the curve) is below the declared minimum and violation is not allowed.
FailsOnAchievedRadius ==
    (/\ op = "bend_euler"
     /\ Or(args.radius, args.cross_section.radius) # None
     /\ args.cross_section.radius_min # None
     /\ args.Rmin < args.cross_section.radius_min[1]
     /\ ~args.allow_min_radius_violation) => err = "ValueError"

\* C15 amended: with violation not allowed, the call fails exactly when the
\* nominal radius used (the argument, or the cross-section's radius when the
\* argument is None or 0) is below the declared minimum; an achieved minimum
\* radius below the declared minimum does not fail the call by itself.
FailsOnNominalRadius ==
    LET r == Or(args.radius, args.cross_section.radius)
    IN  (/\ op = "bend_euler"
         /\ r # None
         /\ args.cross_section.radius_min # None
         /\ ~args.allow_min_radius_violation) =>
            /\ err = "ValueError" <=> r[1] < args.cross_section.radius_min[1]
            /\ err = "none" =>
                  result.kind = "bend_euler" /\ result.radius_min = args.Rmin

FailsOnNominalRadiusWitness ==
    /\ op = "bend_euler"
    /\ args.radius = Some(2)
    /\ args.cross_section.radius_min = Some(2)
    /\ args.with_arc_floorplan
    /\ ~args.allow_min_radius_violation
    /\ err = "none"
    /\ result.kind = "bend_euler" /\ result.radius_min = 1

\* C16 as stated: with radius None the call returns a wire corner, whatever
\* the cross-section.
RadiusNoneIsWireCorner ==
    (op = "bend_euler" /\ args.radius = None) =>
        err = "none" /\ result.kind = "wire_corner"

\* C16 amended: with radius None the call uses the cross-section's radius
\* and generates the Euler bend (or raises on the minimum-radius check); it
\* returns a wire corner only when the cross-section has no radius either.
RadiusNoneDefaultsToCrossSection ==
    (op = "bend_euler" /\ args.radius = None) =>
        /\ args.cross_section.radius = None =>
              err = "none" /\ result.kind = "wire_corner"
        /\ args.cross_section.radius # None =>
              \/ /\ err = "none"
                 /\ result.kind = "bend_euler"
                 /\ result.radius = args.cross_section.radius[1]
              \/ /\ err = "ValueError"
                 /\ ~args.allow_min_radius_violation
                 /\ result = NoComponent

RadiusNoneWitness ==
    /\ op = "bend_euler"
    /\ args.radius = None
    /\ args.cross_section.radius = None
    /\ result.kind = "wire_corner"

----------------------------------------------------------------------------
(* cutback_loss: rows or cols of each cutback from the target losses       *)
(* (components/cutback_loss.py). Losses and loss_dB are whole multiples of *)
(* one unit, so the quotients are exact.                                   *)

MaxLoss == 6
MaxLossDb == 2
MaxCount == 2
MaxLossValues == 2

\* Python truth value of an int | None
Truthy(v) == v # None /\ v # Some(0)

RECURSIVE SeqsUpTo(_, _)
\* sequences of at most n elements of S
SeqsUpTo(S, n) ==
    IF n = 0 THEN {<<>>}
    ELSE LET shorter == SeqsUpTo(S, n - 1)
         IN  shorter \cup {Append(s, e) : s \in {t \in shorter : Len(t) = n - 1},
                                          e \in S}

rows_list_even(loss, loss_dB, cols) ==
    [k \in 1..Len(loss) |-> (loss[k] \div (loss_dB * cols * 2)) * 2]

\* rows_list = loss / loss_dB / cols; rows_list // 2 * 2 + 1; int(rows)
rows_list(loss, loss_dB, cols) ==
    [k \in 1..Len(loss) |-> (loss[k] \div (loss_dB * cols * 2)) * 2 + 1]

\* cols_list = loss / loss_dB / rows; int(cols)
cols_list(loss, loss_dB, rows) ==
    [k \in 1..Len(loss) |-> loss[k] \div (loss_dB * rows)]

\* the if/elif chain of cutback_loss; a cutback is the pair of rows and cols
\* its factory was called with. Dividing the array by None is a TypeError,
\* dividing by 0 gives inf or nan, which int() refuses.
cutback_loss(loss, loss_dB, cols, rows) ==
    IF Truthy(rows) /\ Truthy(cols)
    THEN [err |-> "ValueError: Specify either cols or rows", cutbacks |-> <<>>]
    ELSE IF rows = None
    THEN IF cols = None
         THEN [err |-> "TypeError", cutbacks |-> <<>>]
         ELSE IF cols = Some(0)
         THEN [err |-> IF loss = <<>> THEN "none" ELSE "int() of inf or nan",
               cutbacks |-> <<>>]
         ELSE [err |-> "none",
               cutbacks |-> [k \in 1..Len(loss) |->
                                [rows |-> rows_list(loss, loss_dB, cols[1])[k],
                                 cols |-> cols[1]]]]
    ELSE IF cols = None
    THEN IF rows = Some(0)
         THEN [err |-> IF loss = <<>> THEN "none" ELSE "int() of inf or nan",
               cutbacks |-> <<>>]
         ELSE [err |-> "none",
               cutbacks |-> [k \in 1..Len(loss) |->
                                [rows |-> rows[1],
                                 cols |-> cols_list(loss, loss_dB, rows[1])[k]]]]
    ELSE [err |-> "ValueError: Specify either cols or rows", cutbacks |-> <<>>]

CutbackLoss ==
    /\ Building
    /\ \E loss \in SeqsUpTo(1..MaxLoss, MaxLossValues), loss_dB \in 1..MaxLossDb,
          cols \in {None} \cup {Some(n) : n \in 0..MaxCount},
          rows \in {None} \cup {Some(n) : n \in 0..MaxCount} :
          /\ Called("cutback_loss", [loss |-> loss, loss_dB |-> loss_dB,
                                     cols |-> cols, rows |-> rows])
          /\ result' = cutback_loss(loss, loss_dB, cols, rows).cutbacks
          /\ err' = cutback_loss(loss, loss_dB, cols, rows).err
    /\ UNCHANGED <<ports, direction_ports>>

NextCutback == CutbackLoss

SpecCutback == Init /\ [][NextCutback]_vars

\* C17: with cols given (at least 1) and rows unspecified, one cutback is
\* made per loss value, in order, each with the given cols and with a row
\* count that is odd and equals floor(computed / 2) * 2 + 1 for
\* computed = loss / loss_dB / cols, i.e. the odd r with
\* r - 1 <= computed < r + 1.
RowsOddPerLoss ==
    (/\ op = "cutback_loss"
     /\ args.rows = None
     /\ args.cols # None /\ args.cols # Some(0)) =>
        LET d == args.loss_dB * args.cols[1]
        IN  /\ err = "none"
            /\ Len(result) = Len(args.loss)
            /\ \A k \in 1..Len(result) :
                  /\ result[k].cols = args.cols[1]
                  /\ result[k].rows % 2 = 1
                  /\ (result[k].rows - 1) * d <= args.loss[k]
                  /\ args.loss[k] < (result[k].rows + 1) * d

RowsOddPerLossWitness ==
    /\ op = "cutback_loss"
    /\ args = [loss |-> <<6, 3>>, loss_dB |-> 1, cols |-> Some(2),
               rows |-> None]
    /\ result = <<[rows |-> 3, cols |-> 2], [rows |-> 1, cols |-> 2]>>

\* C18 as stated: the call fails with 'Specify either cols or rows' and
\* builds nothing whenever both rows and cols are specified or neither is,
\* and builds cutbacks only when exactly one of them is given.
ExactlyOneOfRowsAndCols ==
    op = "cutback_loss" =>
        /\ (args.rows = None <=> args.cols = None) =>
              /\ err = "ValueError: Specify either cols or rows"
              /\ result = <<>>
        /\ (err = "none" /\ result # <<>>) =>
              ~(args.rows = None <=> args.cols = None)

----------------------------------------------------------------------------
(* straight_heater_metal_undercut: the sections of the heater and where    *)
(* its optical ports end up (components/straight_heater_metal.py). Lengths *)
(* are even numbers of grid units, so (length - n * period) / 2 is exact.  *)

MaxHeaterLength == 8
MaxUndercut == 2
MaxSpacing == 1
MaxStraight == 1

RECURSIVE Repeat(_, _)
\* n * s for a string s
Repeat(n, s) == IF n <= 0 THEN <<>> ELSE s \o Repeat(n - 1, s)

undercut_count_rounded_up(length, length_undercut, length_undercut_spacing, length_straight_input) ==
    (length - 2 * length_straight_input)
        \div (length_undercut + length_undercut_spacing) + 1

\* period = length_undercut + length_undercut_spacing;
\* n = int((length - 2 * length_straight_input) // period)
undercut_count(length, length_undercut, length_undercut_spacing, length_straight_input) ==
    (length - 2 * length_straight_input)
        \div (length_undercut + length_undercut_spacing)

symbol_to_length_without_subtraction(length, length_undercut, length_undercut_spacing, length_straight, length_straight_input) ==
    LET period == length_undercut + length_undercut_spacing
        n == undercut_count(length, length_undercut, length_undercut_spacing,
                            length_straight_input)
    IN  [symbol \in {"_", "-", "U", "H"} |->
            CASE symbol = "_" -> length_straight
              [] symbol = "-" -> (length - n * period) \div 2
              [] symbol = "U" -> length_undercut
              [] symbol = "H" -> length_undercut_spacing]

\* the length of the straight behind each symbol: s_ports, s_si, s_uc and
\* s_spacing, with length_straight_input recomputed from n and reduced by
\* length_straight
symbol_to_length(length, length_undercut, length_undercut_spacing, length_straight, length_straight_input) ==
    LET period == length_undercut + length_undercut_spacing
        n == undercut_count(length, length_undercut, length_undercut_spacing,
                            length_straight_input)
    IN  [symbol \in {"_", "-", "U", "H"} |->
            CASE symbol = "_" -> length_straight
              [] symbol = "-" -> (length - n * period) \div 2 - length_straight
              [] symbol = "U" -> length_undercut
              [] symbol = "H" -> length_undercut_spacing]

RECURSIVE SequenceLength(_, _)
SequenceLength(sequence, lengths) ==
    IF sequence = <<>> THEN 0
    ELSE lengths[Head(sequence)] + SequenceLength(Tail(sequence), lengths)

\* component_sequence chains the straights port o2 to port o1 from the
\* origin: o1 of the first is at x = 0 and o2 of the last at the sum of
\* the lengths
component_sequence(sequence, lengths) ==
    [o1 |-> 0, o2 |-> SequenceLength(sequence, lengths)]

straight_heater_metal_undercut(length, length_undercut, length_undercut_spacing, length_straight, length_straight_input) ==
    LET period == length_undercut + length_undercut_spacing
        n == undercut_count(length, length_undercut, length_undercut_spacing,
                            length_straight_input)
        lengths == symbol_to_length(length, length_undercut,
                                    length_undercut_spacing, length_straight,
                                    length_straight_input)
        sequence == <<"_", "-">> \o Repeat(n, <<"U", "H">>) \o <<"-", "_">>
    IN  IF n < 1
        THEN [err |-> "ValueError: length is too short",
              component |-> NoComponent]
        ELSE IF length_straight > (length - n * period) \div 2
        THEN [err |-> "ValueError: length_straight", component |-> NoComponent]
        ELSE [err |-> "none",
              component |-> [kind |-> "straight_heater_metal_undercut",
                             n |-> n,
                             sequence |-> sequence,
                             lengths |-> lengths,
                             ports |-> component_sequence(sequence, lengths)]]

StraightHeaterMetalUndercut ==
    /\ Building
    /\ \E length \in {2 * k : k \in 0..MaxHeaterLength},
          length_undercut \in {2 * k : k \in 1..MaxUndercut},
          length_undercut_spacing \in {2 * k : k \in 0..MaxSpacing},
          length_straight \in {2 * k : k \in 0..MaxStraight},
          length_straight_input \in {2 * k : k \in 0..MaxStraight} :
          LET c == straight_heater_metal_undercut(length, length_undercut,
                       length_undercut_spacing, length_straight,
                       length_straight_input)
          IN  /\ Called("straight_heater_metal_undercut",
                        [length |-> length,
                         length_undercut |-> length_undercut,
                         length_undercut_spacing |-> length_undercut_spacing,
                         length_straight |-> length_straight,
                         length_straight_input |-> length_straight_input])
              /\ result' = c.component
              /\ err' = c.err
    /\ UNCHANGED <<ports, direction_ports>>

NextHeater == StraightHeaterMetalUndercut

SpecHeater == Init /\ [][NextHeater]_vars

\* C19: for every accepted parameter set the section lengths of the
\* sequence "_-" + n * "UH" + "-_" are none negative and sum to the
\* requested length, so port o1 is at x = 0 and port o2 at x = length,
\* whatever length_straight, length_undercut and length_undercut_spacing.
SectionsSumToLength ==
    (op = "straight_heater_metal_undercut" /\ err = "none") =>
        LET s == result.sequence
            total[i \in 0..Len(s)] ==
                IF i = 0 THEN 0 ELSE total[i - 1] + result.lengths[s[i]]
        IN  /\ result.n >= 1
            /\ Len(s) = 2 * result.n + 4
            /\ s[1] = "_" /\ s[2] = "-"
            /\ s[Len(s) - 1] = "-" /\ s[Len(s)] = "_"
            /\ \A i \in 1..result.n : s[2 * i + 1] = "U" /\ s[2 * i + 2] = "H"
            /\ \A i \in 1..Len(s) : result.lengths[s[i]] >= 0
            /\ total[Len(s)] = args.length
            /\ result.ports.o1 = 0
            /\ result.ports.o2 = args.length

SectionsSumToLengthWitness ==
    /\ op = "straight_heater_metal_undercut"
    /\ args = [length |-> 12, length_undercut |-> 4,
               length_undercut_spacing |-> 0, length_straight |-> 2,
               length_straight_input |-> 2]
    /\ err = "none"
    /\ result.n = 2
    /\ result.sequence = <<"_", "-", "U", "H", "U", "H", "-", "_">>
    /\ result.ports.o2 = 12

----------------------------------------------------------------------------
(* taper: the widths of its ports and its bounding boxes                   *)
(* (components/taper.py). Widths and lengths are whole numbers of one      *)
(* unit that is a multiple of the 2 nm grid, so snap_to_grid2x leaves      *)
(* them as they are.                                                       *)

MaxWidth == 2
MaxTaperLength == 1

\* gf.get_cross_section(cross_section, width=width): the cross-section with
\* its width replaced by the given one, its own width when None is given
get_cross_section_width(xs_width, width) ==
    IF width = None THEN xs_width ELSE width[1]

\* the body of taper for a cross-section of width xs_width. width1 is
\* overwritten with x1.width before the test `width1 is None`, so the test
\* never succeeds.
taper(length, width1, width2, port, with_two_ports, with_bbox, xs_width) ==
    LET x1 == get_cross_section_width(xs_width, width1)
        x2 == IF Truthy(width2)
              THEN get_cross_section_width(xs_width, width2)
              ELSE x1
        w1 == Some(x1)
        w2 == Some(x2)
        w1p == IF port # None /\ w1 = None THEN Some(port[1].width) ELSE w1
        w2p == Or(w2, w1p)
        o1 == [name |-> <<"o", "1">>, x |-> 0, y |-> 0,
               orientation |-> Some(180), width |-> w1p[1]]
        o2 == [name |-> <<"o", "2">>, x |-> length, y |-> 0,
               orientation |-> Some(0), width |-> w2p[1]]
    IN  [kind |-> "taper",
         polygons |-> IF length # 0 THEN 1 ELSE 0,
         add_bbox |-> (IF with_bbox THEN 1 ELSE 0) + 1,
         ports |-> IF with_two_ports THEN <<o1, o2>> ELSE <<o1>>,
         info |-> [length |-> length, width1 |-> w1p[1], width2 |-> w2p[1]]]

Taper ==
    /\ Building
    /\ \E length \in 0..MaxTaperLength,
          width1 \in {None} \cup {Some(w) : w \in 1..MaxWidth},
          width2 \in {None} \cup {Some(w) : w \in 0..MaxWidth},
          port \in {None} \cup {Some([width |-> w]) : w \in 1..MaxWidth},
          with_two_ports \in BOOLEAN, with_bbox \in BOOLEAN,
          xs_width \in 1..MaxWidth :
          /\ Called("taper", [length |-> length, width1 |-> width1,
                              width2 |-> width2, port |-> port,
                              with_two_ports |-> with_two_ports,
                              with_bbox |-> with_bbox, xs_width |-> xs_width])
          /\ result' = taper(length, width1, width2, port, with_two_ports,
                             with_bbox, xs_width)
          /\ err' = "none"
    /\ UNCHANGED <<ports, direction_ports>>

NextTaper == Taper

SpecTaper == Init /\ [][NextTaper]_vars

\* C20 as stated: when a Port is passed as the port argument, the width of
\* the taper's first port (width1) equals that port's width.
TaperWidthFromPort ==
    (op = "taper" /\ args.port # None) =>
        /\ result.ports[1].width = args.port[1].width
        /\ result.info.width1 = args.port[1].width

----------------------------------------------------------------------------
(* route_single without waypoints (routing/route_single.py:134-136 and     *)
(* 157-169): the straight lengths are converted to dbu and handed, with    *)
(* the ports, the bend and the straight factory, to route(). route() and   *)
(* place90() are kfactory's; they are modelled after sections 4.4 and 4.5  *)
(* of the specification: a right-angle backbone between the port centers   *)
(* with the fewest direction changes, leaving port1 along its orientation  *)
(* for at least start_straight and entering port2 against its orientation  *)
(* for at least end_straight, then one bend per corner and one straight    *)
(* per segment. Port centers are in dbu; corners lie on a 2.5 um grid, and *)
(* ports that need more than two direction changes are not drawn.          *)

MaxPortSteps == 2
MaxLegSteps == 8
MaxBendSteps == 3

StraightLengthUnconverted(length) == length

\* round(start_straight_length / dbu), for a whole number of um
StraightLengthDbu(length) == length * DbuPerUm

straight_dbu_length_in_dbu(length) ==
    [kind |-> "straight", length |-> [num |-> length, den |-> 1]]

\* straight_dbu(length): the straight of length * dbu um, a fraction here
straight_dbu(length) ==
    [kind |-> "straight", length |-> [num |-> length, den |-> DbuPerUm]]

\* unit vector of a port orientation of 0, 90, 180 or 270 degrees
Dir(o) ==
    CASE o = 0 -> <<1, 0>>
      [] o = 90 -> <<0, 1>>
      [] o = 180 -> <<-1, 0>>
      [] o = 270 -> <<0, -1>>

Move(pt, h, t) == <<pt[1] + t * h[1], pt[2] + t * h[2]>>

\* the backbones route() may choose between: the straight line when the
\* ports face each other on one axis, else one corner for perpendicular
\* ports and two corners for parallel ones
route_backbone(p1, p2, start_straight, end_straight) ==
    LET a == CenterPoint(p1)
        b == CenterPoint(p2)
        h1 == Dir(p1.orientation[1])
        hf == Move(<<0, 0>>, Dir(p2.orientation[1]), -1)
        Legs == {2500 * k : k \in 1..MaxLegSteps}
        t == (b[1] - a[1]) * h1[1] + (b[2] - a[2]) * h1[2]
        straight ==
            IF /\ h1 = hf /\ t > 0 /\ b = Move(a, h1, t)
               /\ t >= start_straight /\ t >= end_straight
            THEN {<<a, b>>} ELSE {}
        one == {<<a, Move(a, h1, t1), b>> : t1 \in
                   {t1 \in Legs : /\ t1 >= start_straight
                                  /\ \E t2 \in Legs :
                                        /\ t2 >= end_straight
                                        /\ Move(Move(a, h1, t1), hf, t2) = b}}
        two == {<<a, Move(a, h1, tt[1]), Move(b, hf, -tt[2]), b>> : tt \in
                   {tt \in Legs \X Legs :
                       LET c1 == Move(a, h1, tt[1])
                           c2 == Move(b, hf, -tt[2])
                       IN  /\ tt[1] >= start_straight
                           /\ tt[2] >= end_straight
                           /\ c1 # c2
                           /\ (c2[1] - c1[1]) * h1[1]
                                 + (c2[2] - c1[2]) * h1[2] = 0}}
    IN  IF straight # {} THEN straight
        ELSE IF h1[1] * hf[1] + h1[2] * hf[2] = 0 THEN one
        ELSE two

\* the assembly of a backbone: a bend at each corner, which takes radius of
\* the segment on each of its sides, and a straight of the remaining length
\* on each segment
place90(pts, radius) ==
    LET n == Len(pts)
        Abs(v) == IF v < 0 THEN -v ELSE v
        remaining(i) ==
            Abs(pts[i + 1][1] - pts[i][1]) + Abs(pts[i + 1][2] - pts[i][2])
                - (IF i > 1 THEN radius ELSE 0)
                - (IF i < n - 1 THEN radius ELSE 0)
    IN  IF \E i \in 1..(n - 1) : remaining(i) < 0
        THEN [err |-> "InsufficientSpaceError",
              route |-> [backbone |-> pts, bends |-> 0, straights |-> <<>>]]
        ELSE [err |-> "none",
              route |-> [backbone |-> pts, bends |-> n - 2,
                         straights |-> [i \in 1..(n - 1) |->
                                           straight_dbu(remaining(i))]]]

\* port1 at the origin facing East or North, port2 on a 10 um grid
InputBackbonePort ==
    /\ Len(ports) < 2
    /\ \E x \in {10000 * k : k \in 0..MaxPortSteps},
          y \in {10000 * k : k \in 0..MaxPortSteps},
          o \in {0, 90, 180, 270} :
          /\ Len(ports) = 0 => x = 0 /\ y = 0 /\ o \in {0, 90}
          /\ Input([name |-> InputName(Len(ports) + 1), x |-> x, y |-> y,
                    orientation |-> Some(o), width |-> 1, layer |-> <<1, 0>>,
                    port_type |-> "optical"])

\* route_single(component, port1, port2, start_straight_length=...,
\* end_straight_length=...) with waypoints None, lengths in um; radius is
\* the size of the bend cell in dbu
RouteSingleRoute ==
    /\ Building
    /\ Len(ports) = 2
    /\ \E start_straight_length \in {0, 5}, end_straight_length \in {0, 5},
          radius \in {2500 * k : k \in 0..MaxBendSteps} :
          LET start_straight == StraightLengthDbu(start_straight_length)
              end_straight == StraightLengthDbu(end_straight_length)
          IN  \E pts \in route_backbone(ports[1], ports[2], start_straight,
                                        end_straight) :
                 /\ Called("route",
                           [start_straight_length |-> start_straight_length,
                            end_straight_length |-> end_straight_length,
                            radius |-> radius])
                 /\ result' = place90(pts, radius).route
                 /\ err' = place90(pts, radius).err
    /\ UNCHANGED <<ports, direction_ports>>

NextBackbone ==
    \/ InputBackbonePort
    \/ RouteSingleRoute

SpecBackbone == Init /\ [][NextBackbone]_vars

\* C11: for two ports that face each other on one axis, 10 um apart, with
\* zero start and end straight lengths and no waypoints, the backbone is
\* exactly [port1 center, port2 center] and the route is one straight of
\* length 10 um and no bend.
FacingPortsStraightRoute ==
    (/\ op = "route"
     /\ args.start_straight_length = 0 /\ args.end_straight_length = 0
     /\ CenterPoint(ports[2])
           = Move(CenterPoint(ports[1]), Dir(ports[1].orientation[1]), 10000)
     /\ ports[2].orientation[1] = (ports[1].orientation[1] + 180) % 360) =>
        /\ err = "none"
        /\ result.backbone = <<CenterPoint(ports[1]), CenterPoint(ports[2])>>
        /\ result.bends = 0
        /\ Len(result.straights) = 1
        /\ result.straights[1].length.num = 10 * result.straights[1].length.den

FacingPortsStraightRouteWitness ==
    /\ op = "route"
    /\ args.start_straight_length = 0 /\ args.end_straight_length = 0
    /\ ports[1].x = 0 /\ ports[1].y = 0 /\ ports[1].orientation = Some(0)
    /\ ports[2].x = 10000 /\ ports[2].y = 0 /\ ports[2].orientation = Some(180)
    /\ result.backbone = <<<<0, 0>>, <<10000, 0>>>>
    /\ result.bends = 0
    /\ result.straights = <<straight_dbu(10000)>>

\* C12 as stated: for port1 at (0,0) facing East and port2 at (0,20) facing
\* East, with start and end straight lengths of 5 and no waypoints, the
\* backbone has exactly two direction changes and its two corners are
\* joined by one vertical segment of length 10 um.
UTurnVerticalSegmentTen ==
    (/\ op = "route"
     /\ args.start_straight_length = 5 /\ args.end_straight_length = 5
     /\ ports[1].x = 0 /\ ports[1].y = 0 /\ ports[1].orientation = Some(0)
     /\ ports[2].x = 0 /\ ports[2].y = 20000
     /\ ports[2].orientation = Some(0)) =>
        LET c == result.backbone
        IN  /\ Len(c) = 4
            /\ c[2][1] = c[3][1]
            /\ c[3][2] - c[2][2] = 10000

\* C12 amended: in that call the backbone has exactly two direction changes:
\* it leaves port1 eastwards for at least 5 um, enters port2 westwards after
\* at least 5 um, and its two corners are joined by one vertical segment of
\* length 20 um, the distance between the ports.
UTurnVerticalSegmentTwenty ==
    (/\ op = "route"
     /\ args.start_straight_length = 5 /\ args.end_straight_length = 5
     /\ ports[1].x = 0 /\ ports[1].y = 0 /\ ports[1].orientation = Some(0)
     /\ ports[2].x = 0 /\ ports[2].y = 20000
     /\ ports[2].orientation = Some(0)) =>
        LET c == result.backbone
        IN  /\ Len(c) = 4
            /\ c[1] = <<0, 0>> /\ c[4] = <<0, 20000>>
            /\ c[2][2] = 0 /\ c[3][2] = 20000
            /\ c[2][1] = c[3][1]
            /\ c[2][1] >= 5000
            /\ c[3][2] - c[2][2] = 20000

UTurnWitness ==
    /\ op = "route"
    /\ args.start_straight_length = 5 /\ args.end_straight_length = 5
    /\ args.radius = 2500
    /\ ports[1].x = 0 /\ ports[1].y = 0 /\ ports[1].orientation = Some(0)
    /\ ports[2].x = 0 /\ ports[2].y = 20000 /\ ports[2].orientation = Some(0)
    /\ err = "none"
    /\ result.backbone = <<<<0, 0>>, <<5000, 0>>, <<5000, 20000>>, <<0, 20000>>>>
    /\ result.bends = 2

----------------------------------------------------------------------------
(* Claims about the bounding box of taper (checked under SpecTaper) *)

\* C21 as stated: taper adds the bounding box of the cross-section only when
\* with_bbox is True: no add_bbox with with_bbox False, exactly one with
\* with_bbox True.
TaperBboxOnlyWithFlag ==
    op = "taper" =>
        /\ ~args.with_bbox => result.add_bbox = 0
        /\ args.with_bbox => result.add_bbox = 1

----------------------------------------------------------------------------
(* pad and pad_array (components/pad.py). Layers are (layer, datatype)     *)
(* pairs, sizes and offsets whole numbers; the ports pad copies from its   *)
(* compass are left out.                                                   *)

MaxSize == 2
MaxBbox == 2
MaxOffset == 2

\* Python truth value of a tuple | None (None and the empty tuple are <<>>)
NonEmpty(t) == t # <<>>

Min(a, b) == IF a < b THEN a ELSE b

RECURSIVE GrownSizes(_, _)
\* the list `sizes` of pad: every offset is added to the size left by the
\* one before, because the loop assigns to `size` itself
GrownSizes(size, bbox_offsets) ==
    IF bbox_offsets = <<>> THEN <<>>
    ELSE LET grown == <<size[1] + 2 * Head(bbox_offsets),
                        size[2] + 2 * Head(bbox_offsets)>>
         IN  <<grown>> \o GrownSizes(grown, Tail(bbox_offsets))

\* pad: the bbox rectangles, and the "pad" port built from the variables
\* `layer` and `size` as the two loops leave them
pad(size, layer, bbox_layers, bbox_offsets, port_orientation) ==
    LET with_bbox == NonEmpty(bbox_layers) /\ NonEmpty(bbox_offsets)
        sizes == GrownSizes(size, bbox_offsets)
        zipped == Min(Len(bbox_layers), Len(sizes))
        rects == IF with_bbox
                 THEN [i \in 1..zipped |->
                          [layer |-> bbox_layers[i], size |-> sizes[i]]]
                 ELSE <<>>
        layer_after == IF with_bbox THEN bbox_layers[zipped] ELSE layer
        size_after == IF with_bbox THEN sizes[zipped] ELSE size
        width == IF port_orientation \in {0, 180}
                 THEN size_after[2] ELSE size_after[1]
    IN  [kind |-> "pad",
         info |-> [size |-> size, xsize |-> size[1], ysize |-> size[2]],
         rects |-> rects,
         port |-> [name |-> <<"p", "a", "d">>, x |-> 0, y |-> 0,
                   orientation |-> Some(port_orientation), width |-> width,
                   layer |-> layer_after, port_type |-> "vertical_dc"]]

Pad ==
    /\ Building
    /\ \E size \in (1..MaxSize) \X (1..MaxSize),
          bbox_layers \in SeqsUpTo({<<2, 0>>, <<3, 0>>}, MaxBbox),
          bbox_offsets \in SeqsUpTo(0..MaxOffset, MaxBbox),
          port_orientation \in {0, 90, 180, 270} :
          /\ Called("pad", [size |-> size, layer |-> <<1, 0>>,
                            bbox_layers |-> bbox_layers,
                            bbox_offsets |-> bbox_offsets,
                            port_orientation |-> port_orientation])
          /\ result' = pad(size, <<1, 0>>, bbox_layers, bbox_offsets,
                           port_orientation)
          /\ err' = "none"
    /\ UNCHANGED <<ports, direction_ports>>

NextPad == Pad

SpecPad == Init /\ [][NextPad]_vars

\* C22 as stated: each bbox layer i gets a rectangle of the pad size grown
\* by its own offset, (size_x + 2 * bbox_offsets[i], size_y + 2 *
\* bbox_offsets[i]), whatever the other offsets.
BboxGrownByOwnOffset ==
    (op = "pad" /\ args.bbox_layers # <<>> /\ args.bbox_offsets # <<>>) =>
        \A i \in 1..Len(result.rects) :
            /\ result.rects[i].layer = args.bbox_layers[i]
            /\ result.rects[i].size =
                  <<args.size[1] + 2 * args.bbox_offsets[i],
                    args.size[2] + 2 * args.bbox_offsets[i]>>

\* C29 as stated: the "pad" port does not depend on the bbox arguments: its
\* layer is the pad layer and its width the pad size along the axis of the
\* port (size_y for port_orientation 0 or 180, size_x otherwise).
PadPortIndependentOfBbox ==
    op = "pad" =>
        /\ result.port.layer = args.layer
        /\ result.port.width = IF args.port_orientation \in {0, 180}
                               THEN args.size[2] ELSE args.size[1]

MaxRows == 11
MaxColumns == 11

\* the ports pad_array adds, in the order of its loops (col outside, row
\* inside): the port of (row, col) is number col * rows + row + 1
pad_array(columns, rows, spacing, size, port_orientation) ==
    LET width == IF port_orientation \in {90, 270} THEN size[1] ELSE size[2]
    IN  [k \in 1..(columns * rows) |->
            LET col == (k - 1) \div rows
                row == (k - 1) % rows
            IN  [name |-> <<"e">> \o str(row + 1) \o str(col + 1),
                 x |-> col * spacing[1], y |-> row * spacing[2],
                 orientation |-> Some(port_orientation), width |-> width,
                 layer |-> <<1, 0>>, port_type |-> "electrical"]]

PadArray ==
    /\ Building
    /\ \E columns \in 1..MaxColumns, rows \in 1..MaxRows,
          spacing \in (1..MaxSize) \X (1..MaxSize),
          port_orientation \in {0, 90} :
          /\ Called("pad_array", [columns |-> columns, rows |-> rows,
                                  spacing |-> spacing, size |-> <<1, 2>>,
                                  port_orientation |-> port_orientation])
          /\ result' = pad_array(columns, rows, spacing, <<1, 2>>,
                                 port_orientation)
          /\ err' = "none"
    /\ UNCHANGED <<ports, direction_ports>>

NextPadArray == PadArray

SpecPadArray == Init /\ [][NextPadArray]_vars

\* C26 as stated: pad_array creates exactly rows * columns ports, one per
\* (row, col) at (col * spacing_x, row * spacing_y), and their names
\* 'e{row+1}{col+1}' are pairwise distinct for all rows, columns >= 1.
PadArrayNamesDistinct ==
    op = "pad_array" =>
        /\ Len(result) = args.rows * args.columns
        /\ \A row \in 0..(args.rows - 1), col \in 0..(args.columns - 1) :
              \E k \in 1..Len(result) :
                 /\ result[k].x = col * args.spacing[1]
                 /\ result[k].y = row * args.spacing[2]
                 /\ result[k].name = <<"e">> \o str(row + 1) \o str(col + 1)
        /\ \A j, k \in 1..Len(result) :
              j # k => result[j].name # result[k].name

----------------------------------------------------------------------------
(* Port.__init__ (port.py:111-158): the checks a new port goes through *)

Port_without_width_check(name, orientation, center, width, layer, cross_section) ==
    LET o == IF orientation # None /\ orientation # Some(0)
             THEN Some(orientation[1] % 360) ELSE orientation
        l == IF layer = None /\ cross_section # None
             THEN Some(cross_section[1].layer) ELSE layer
        w == IF width = None /\ cross_section # None
             THEN Some(cross_section[1].width) ELSE width
    IN  IF cross_section = None /\ layer = None
        THEN [err |-> "ValueError: cross_section or layer", port |-> NoComponent]
        ELSE IF cross_section = None /\ width = None
        THEN [err |-> "ValueError: cross_section or width", port |-> NoComponent]
        ELSE IF o = None
        THEN [err |-> "TypeError", port |-> NoComponent]
        ELSE [err |-> "none",
              port |-> [name |-> name, x |-> center[1], y |-> center[2],
                        orientation |-> o, width |-> w[1], layer |-> l[1],
                        port_type |-> "optical"]]

\* orientation is reduced modulo 360 unless falsy; layer and width default
\* to the cross-section's; a negative width raises; float(orientation)
\* raises TypeError for None
Port(name, orientation, center, width, layer, cross_section) ==
    LET o == IF orientation # None /\ orientation # Some(0)
             THEN Some(orientation[1] % 360) ELSE orientation
        l == IF layer = None /\ cross_section # None
             THEN Some(cross_section[1].layer) ELSE layer
        w == IF width = None /\ cross_section # None
             THEN Some(cross_section[1].width) ELSE width
    IN  IF cross_section = None /\ layer = None
        THEN [err |-> "ValueError: cross_section or layer", port |-> NoComponent]
        ELSE IF cross_section = None /\ width = None
        THEN [err |-> "ValueError: cross_section or width", port |-> NoComponent]
        ELSE IF w[1] < 0
        THEN [err |-> "ValueError: Port width must be >=0", port |-> NoComponent]
        ELSE IF o = None
        THEN [err |-> "TypeError", port |-> NoComponent]
        ELSE [err |-> "none",
              port |-> [name |-> name, x |-> center[1], y |-> center[2],
                        orientation |-> o, width |-> w[1], layer |-> l[1],
                        port_type |-> "optical"]]

NewPort ==
    /\ Building
    /\ \E orientation \in {None, Some(0), Some(90), Some(450), Some(-90)},
          width \in {None} \cup {Some(w) : w \in (-1)..MaxWidth},
          layer \in {None, Some(<<1, 0>>)},
          cross_section \in {None} \cup
              {Some([width |-> w, layer |-> <<2, 0>>]) : w \in 1..MaxWidth} :
          LET p == Port(InputName(1), orientation, <<0, 0>>, width, layer,
                        cross_section)
          IN  /\ Called("Port", [orientation |-> orientation, width |-> width,
                                 layer |-> layer,
                                 cross_section |-> cross_section])
              /\ result' = p.port
              /\ err' = p.err
    /\ UNCHANGED <<ports, direction_ports>>

NextPort == NewPort

SpecPort == Init /\ [][NextPort]_vars

\* C23 as stated: every port that is constructed has width > 0, and a width
\* <= 0 raises an error and yields no port.
PortWidthPositive ==
    op = "Port" =>
        /\ err = "none" => result.width > 0
        /\ (args.width # None /\ args.width[1] <= 0) =>
              err # "none" /\ result = NoComponent

\* C23 amended: every port that is constructed has width >= 0: a negative
\* width raises ValueError and yields no port, and a width of 0 is accepted
\* (the port is constructed with width 0 when its other arguments are valid).
PortWidthNotNegative ==
    op = "Port" =>
        /\ err = "none" => result.width >= 0
        /\ (args.width # None /\ args.width[1] < 0) =>
              err \in {"ValueError: Port width must be >=0",
                       "ValueError: cross_section or layer"}
                 /\ result = NoComponent
        /\ (args.width = Some(0) /\ args.layer # None
                /\ args.orientation # None) =>
              err = "none" /\ result.width = 0

PortWidthWitness ==
    /\ op = "Port"
    /\ args.width = Some(0)
    /\ args.orientation = Some(90)
    /\ err = "none"
    /\ result.width = 0

----------------------------------------------------------------------------
(* Claims about the number of undercut periods (checked under SpecHeater) *)

\* C28: the call either raises ValueError (when less than one period fits
\* between the two input lengths, or when length_straight exceeds the
\* recomputed input length) or places n >= 1 periods with n maximal:
\* 2 * length_straight_input + n * period <= length
\*     < 2 * length_straight_input + (n + 1) * period,
\* so the input section (length - n * period) / 2 is not shorter than the
\* requested length_straight_input and no section has a negative length.
UndercutCountMaximal ==
    op = "straight_heater_metal_undercut" =>
        LET period == args.length_undercut + args.length_undercut_spacing
            room == args.length - 2 * args.length_straight_input
        IN  /\ room < period <=> err = "ValueError: length is too short"
            /\ err \in {"none", "ValueError: length is too short",
                        "ValueError: length_straight"}
            /\ err # "none" => result = NoComponent
            /\ err = "none" =>
                  /\ result.n >= 1
                  /\ result.n * period <= room
                  /\ room < (result.n + 1) * period
                  /\ args.length - result.n * period
                        >= 2 * args.length_straight_input
                  /\ \A s \in {"_", "-", "U", "H"} : result.lengths[s] >= 0
                  /\ 2 * (result.lengths["-"] + args.length_straight)
                        = args.length - result.n * period

UndercutCountMaximalWitness ==
    /\ op = "straight_heater_metal_undercut"
    /\ args = [length |-> 16, length_undercut |-> 4,
               length_undercut_spacing |-> 2, length_straight |-> 2,
               length_straight_input |-> 2]
    /\ err = "none"
    /\ result.n = 2
    /\ result.lengths["-"] = 0

----------------------------------------------------------------------------
(* Claims about the sorted list as a whole (checked under Spec) *)

\* C27: sort_ports_clockwise and sort_ports_counter_clockwise return a
\* permutation of their input: every input port appears exactly once in the
\* output, for every combination of port angles.
SortIsPermutation ==
    op \in {"sort_ports_clockwise", "sort_ports_counter_clockwise"} =>
        /\ err = "none"
        /\ Len(result) = Len(ports)
        /\ \A i \in 1..Len(ports) :
              Cardinality({k \in 1..Len(result) : result[k] = i}) = 1

SortIsPermutationWitness ==
    /\ op = "sort_ports_counter_clockwise"
    /\ Len(ports) = 3
    /\ ports[1].orientation = Some(270)
    /\ ports[2].orientation = Some(270)
    /\ ports[3].orientation = Some(0)
    /\ ports[1].x < ports[2].x
    /\ result = <<3, 1, 2>>

----------------------------------------------------------------------------
(* auto_rename_ports_layer_orientation and map_ports_layer_to_orientation  *)
(* (port.py:710-747 and 797-837). Both build direction_ports once, before  *)
(* the loop over the layers, so the lists keep the ports of the layers     *)
(* already visited; the layers are a Python set, visited in any order.     *)

\* f"{layer[0]}_{layer[1]}_"
LayerPrefix(layer) == str(layer[1]) \o <<"_">> \o str(layer[2]) \o <<"_">>

\* [p for p in ports if p.layer == layer], as indices
OnLayer(ps, layer) ==
    LET Test(k) == ps[k].layer = layer
    IN  SelectSeq([k \in 1..Len(ps) |-> k], Test)

\* the orders in which `for layer in layers` may visit the set of layers
LayerOrders(ps) ==
    LET layers == {ps[k].layer : k \in 1..Len(ps)}
    IN  {s \in [1..Cardinality(layers) -> layers] :
            \A i, j \in 1..Cardinality(layers) : i # j => s[i] # s[j]}

\* the lists as the in-place sorts of _rename_ports_facing_side leave them
SortedDirectionPorts(ps, dp) == [d \in Directions |-> SortedSide(ps, dp, d)]

\* the classification of the ports of one layer, appended to dp
RECURSIVE LayerClassify(_, _, _, _)
LayerClassify(ps, on, k, dp) ==
    IF k > Len(on) THEN dp
    ELSE LayerClassify(ps, on, k + 1,
                       AppendBucket(dp, Deg(ps[on[k]].orientation) % 360, on[k]))

\* the same with `if p.orientation:` in front, which skips None and 0
RECURSIVE LayerClassifyTruthy(_, _, _, _)
LayerClassifyTruthy(ps, on, k, dp) ==
    IF k > Len(on) THEN dp
    ELSE LayerClassifyTruthy(ps, on, k + 1,
            IF ps[on[k]].orientation = None \/ ps[on[k]].orientation = Some(0)
            THEN dp
            ELSE AppendBucket(dp, Deg(ps[on[k]].orientation) % 360, on[k]))

\* auto_rename_ports_layer_orientation: the loop over the layers from the
\* k-th on; p.orientation % 360 raises TypeError on None, and the ports
\* renamed for the layers before stay renamed
RECURSIVE AutoLayerLoop(_, _, _, _)
AutoLayerLoop(ps, order, k, dp) ==
    IF k > Len(order) THEN [err |-> "none", ports |-> ps]
    ELSE LET on == OnLayer(ps, order[k])
         IN  IF \E n \in 1..Len(on) : ps[on[n]].orientation = None
             THEN [err |-> "TypeError", ports |-> ps]
             ELSE LET dp1 == LayerClassify(ps, on, 1, dp)
                  IN  AutoLayerLoop(
                         _rename_ports_facing_side(ps, dp1, LayerPrefix(order[k])),
                         order, k + 1, SortedDirectionPorts(ps, dp1))

auto_rename_ports_layer_orientation(ps, order) ==
    AutoLayerLoop(ps, order, 1, EmptyDirectionPorts)

\* m |= d for two dicts
Merge(m, d) ==
    [n \in DOMAIN m \cup DOMAIN d |-> IF n \in DOMAIN d THEN d[n] ELSE m[n]]

\* {p.name: p.name_original for p in ports_on_layer}
LayerNameMap(copies, ps, on) ==
    [n \in {copies[on[k]].name : k \in 1..Len(on)} |->
        ps[on[CHOOSE k \in 1..Len(on) :
                 /\ copies[on[k]].name = n
                 /\ \A j \in 1..Len(on) : copies[on[j]].name = n => j <= k]].name]

\* map_ports_layer_to_orientation: copies holds the copy made of each port
\* (every port is on one layer, so it is copied once)
RECURSIVE MapLayerLoop(_, _, _, _, _, _)
MapLayerLoop(ps, copies, order, k, dp, m) ==
    IF k > Len(order) THEN m
    ELSE LET on == OnLayer(ps, order[k])
             dp1 == LayerClassifyTruthy(ps, on, 1, dp)
             renamed == _rename_ports_facing_side(copies, dp1,
                                                  LayerPrefix(order[k]))
         IN  MapLayerLoop(ps, renamed, order, k + 1,
                          SortedDirectionPorts(ps, dp1),
                          Merge(m, LayerNameMap(renamed, ps, on)))

map_ports_layer_to_orientation(ps, order) ==
    MapLayerLoop(ps, ps, order, 1, EmptyDirectionPorts, <<>>)

InputLayerPort ==
    /\ Len(ports) < MaxRenamePorts
    /\ \E x \in 0..MaxCoord, o \in {Some(0), Some(90), Some(180), None},
          layer \in {<<1, 0>>, <<2, 0>>} :
          Input([name |-> InputName(Len(ports) + 1), x |-> x, y |-> 0,
                 orientation |-> o, width |-> 1, layer |-> layer,
                 port_type |-> "optical"])

AutoRenamePortsLayerOrientation ==
    /\ Building
    /\ \E order \in LayerOrders(ports) :
          /\ Called("auto_rename_ports_layer_orientation", [order |-> order])
          /\ ports' = auto_rename_ports_layer_orientation(ports, order).ports
          /\ err' = auto_rename_ports_layer_orientation(ports, order).err
          /\ result' = <<>>
    /\ UNCHANGED direction_ports

MapPortsLayerToOrientation ==
    /\ Building
    /\ \E order \in LayerOrders(ports) :
          /\ Called("map_ports_layer_to_orientation", [order |-> order])
          /\ result' = map_ports_layer_to_orientation(ports, order)
          /\ err' = "none"
    /\ UNCHANGED <<ports, direction_ports>>

NextLayer ==
    \/ InputLayerPort
    \/ AutoRenamePortsLayerOrientation
    \/ MapPortsLayerToOrientation

SpecLayer == Init /\ [][NextLayer]_vars

\* C24 as stated: auto_rename_ports_layer_orientation renames every port
\* (of a component whose ports all have an orientation) to
\* '<layer0>_<layer1>_<direction><index>' with the prefix of the port's own
\* layer and the index counting from 0 among the ports of that layer facing
\* that direction, also with ports on two or more layers.
LayerOrientationNames ==
    (/\ op = "auto_rename_ports_layer_orientation"
     /\ \A k \in 1..Len(before) : before[k].orientation # None) =>
        LET dir(p) == LET a == Deg(p.orientation) % 360
                      IN  IF a <= 45 \/ a >= 315 THEN "E"
                          ELSE IF a <= 135 THEN "N"
                          ELSE IF a <= 225 THEN "W" ELSE "S"
            group(i) == {j \in 1..Len(ports) :
                            /\ before[j].layer = before[i].layer
                            /\ dir(before[j]) = dir(before[i])}
        IN  /\ err = "none"
            /\ \A i \in 1..Len(ports) :
                  {ports[j].name : j \in group(i)} =
                      {LayerPrefix(before[i].layer) \o <<dir(before[i])>>
                          \o str(n) : n \in 0..(Cardinality(group(i)) - 1)}

\* C30 as stated: map_ports_layer_to_orientation returns for every port
\* with a defined orientation (0 included) an entry from a new name
\* '<layer0>_<layer1>_<direction><index>' to the port's original name, with
\* the prefix of the port's own layer and indices counting from 0 within
\* that layer and direction; the input ports are not renamed.
LayerOrientationMap ==
    op = "map_ports_layer_to_orientation" =>
        LET dir(p) == LET a == Deg(p.orientation) % 360
                      IN  IF a <= 45 \/ a >= 315 THEN "E"
                          ELSE IF a <= 135 THEN "N"
                          ELSE IF a <= 225 THEN "W" ELSE "S"
            defined == {j \in 1..Len(ports) : ports[j].orientation # None}
            group(i) == {j \in defined :
                            /\ ports[j].layer = ports[i].layer
                            /\ dir(ports[j]) = dir(ports[i])}
        IN  /\ ports = before
            /\ \A i \in defined :
                  {n \in DOMAIN result :
                      \E j \in group(i) : result[n] = ports[j].name} =
                      {LayerPrefix(ports[i].layer) \o <<dir(ports[i])>>
                          \o str(n) : n \in 0..(Cardinality(group(i)) - 1)}

----------------------------------------------------------------------------
(* auto_rename_ports on a component whose ports carry names of the form    *)
(* the renaming generates, several of them at one position                 *)

\* names a component's ports may carry before the call
ComponentNames == {<<"o", "1">>, <<"e", "1">>, <<"a", "1">>}

\* Component.ports is keyed by name: a port is added under a name not in use
InputComponentPort ==
    /\ Len(ports) < MaxRenamePorts
    /\ \E n \in ComponentNames, x \in 0..MaxCoord, o \in {Some(0), Some(180)},
          t \in PortTypes :
          /\ \A k \in 1..Len(ports) : ports[k].name # n
          /\ Input([name |-> n, x |-> x, y |-> 0, orientation |-> o,
                    width |-> 1, layer |-> <<1, 0>>, port_type |-> t])

NextAutoRename ==
    \/ InputComponentPort
    \/ AutoRenamePorts

SpecAutoRename == Init /\ [][NextAutoRename]_vars

\* C25 as stated: after auto_rename_ports on any component the names of its
\* ports are pairwise distinct, also when the component holds ports of a
\* type other than optical, electrical and placement (which are not renamed)
\* and when several ports share one position.
AutoRenameNamesDistinct ==
    (op = "auto_rename_ports" /\ args.port_type = "" /\ args.suffix = <<>>) =>
        \A i, j \in 1..Len(ports) : ports[i].name = ports[j].name => i = j

====
